---- MODULE Spec2Model ----
(***************************************************************************)
(* Model of src/lib/query_large_dataset.py: LACrimeDatQuerier and main().  *)
(*                                                                         *)
(* The remote service is the environment: every response body it can send  *)
(* (a transport/HTTP/JSON failure, a JSON value of the wrong shape, an     *)
(* array of any length) is a nondeterministic choice.  The program is      *)
(* sequential; pc is its position.  trace is the history of what the       *)
(* program did to the outside world (requests, pauses, file opens,         *)
(* console reports), in order.                                             *)
(***************************************************************************)
EXTENDS Integers, Sequences, FiniteSets, TLC

(* ------------------------------ bounds --------------------------------- *)

\* largest value the count query answers, and one less than the longest
\* small array the remote returns
MaxTotal == 4

\* largest limit_per_page a direct caller of query_with_pagination passes
MaxPageSize == 3

\* longest record list handed directly to save_to_csv
MaxRecs == 2

\* most rows that reach the file before a write error
MaxPartial == 1

(* ------------------------- program constants --------------------------- *)

\* def query_with_high_limit(..., limit=50000)
DefaultLimit == 50000

\* if not data or len(data) == 50000
MainTruncationSize == 50000

\* def query_with_pagination(..., limit_per_page=1000)
DefaultLimitPerPage == 1000

Min(a, b) == IF a < b THEN a ELSE b

SeqsUpTo(S, n) == UNION {[1..k -> S] : k \in 0..n}

(* ------------------------------ JSON data ------------------------------ *)

\* JSON null as a field value (csv writes None as an empty field)
Null == "<null>"

\* field names of the modelled remote schema, in lexicographic order
KeyOrder == <<"a", "ab", "b", "c">>

IndexOf(k) == CHOOSE i \in 1..Len(KeyOrder) : KeyOrder[i] = k

\* Python's str comparison k1 < k2 on the modelled field names
StrLess(k1, k2) == IndexOf(k1) < IndexOf(k2)

NoFields == [k \in {} |-> ""]

\* an element of a JSON array: a JSON object (a Python dict) ...
Item(rec) == [type |-> "dict", fields |-> rec]

\* ... or anything else (a number, a string): it has no .keys()
NonDict == [type |-> "scalar", fields |-> NoFields]

\* the i-th record of the remote's ordered list of matching records: the
\* records are pairwise different and their key sets differ (sparse schema)
DataRecord(i) ==
    CASE i % 4 = 1 -> [a |-> ToString(i), b |-> ToString(i + 1)]
      [] i % 4 = 2 -> [a |-> ToString(i)]
      [] i % 4 = 3 -> [ab |-> ToString(i), c |-> Null]
      [] OTHER     -> [b |-> ToString(i), c |-> ToString(i)]

(* ------------------------------ JSON lists ----------------------------- *)
(* A list of JSON values is held as its runs: a run [o |-> o, n |-> n] with *)
(* o >= 0 stands for the n consecutive records DataRecord(o + 1) ..         *)
(* DataRecord(o + n) of the remote's list, a run with o = -1 for n elements *)
(* that are not JSON objects.  No run is empty and no two neighbouring runs *)
(* could be one, so equal lists have equal representations.                 *)

\* the n records that follow position o of the remote's list
Slice(o, n) == IF n <= 0 THEN <<>> ELSE <<[o |-> o, n |-> n]>>

\* n elements that are not JSON objects
NonDicts(n) == IF n = 0 THEN <<>> ELSE <<[o |-> -1, n |-> n]>>

\* run r2 continues run r1
Continues(r1, r2) ==
    \/ r1.o = -1 /\ r2.o = -1
    \/ r1.o >= 0 /\ r2.o = r1.o + r1.n

\* list concatenation
Concat(l1, l2) ==
    IF l1 = <<>> THEN l2
    ELSE IF l2 = <<>> THEN l1
    ELSE IF Continues(l1[Len(l1)], l2[1])
    THEN SubSeq(l1, 1, Len(l1) - 1)
         \o <<[o |-> l1[Len(l1)].o, n |-> l1[Len(l1)].n + l2[1].n]>>
         \o SubSeq(l2, 2, Len(l2))
    ELSE l1 \o l2

RECURSIVE ListLen(_)
\* len(l)
ListLen(l) == IF l = <<>> THEN 0 ELSE l[1].n + ListLen(Tail(l))

RECURSIVE ItemAt(_, _)
\* l[i - 1] in Python's indexing: the i-th element of the list
ItemAt(l, i) ==
    IF i <= l[1].n
    THEN IF l[1].o >= 0 THEN Item(DataRecord(l[1].o + i)) ELSE NonDict
    ELSE ItemAt(Tail(l), i - l[1].n)

\* the elements of the list, one by one
Elements(l) == [i \in 1..ListLen(l) |-> ItemAt(l, i)]

(* --------------------------- response bodies --------------------------- *)

\* session.get / raise_for_status / response.json raised
FailBody == [kind |-> "fail", items |-> <<>>]

\* the body is the JSON value null
NullBody == [kind |-> "null", items |-> <<>>]

\* the body is a non-zero JSON number: truthy, no len(), not iterable
NumberBody == [kind |-> "number", items |-> <<>>]

\* the body is a JSON object with two keys; iterating it yields its keys
ObjectBody == [kind |-> "object", items |-> NonDicts(2)]

ArrayBody(s) == [kind |-> "array", items |-> s]

\* lengths of the arrays the remote may answer a bulk request with
BulkLengths == (0..MaxTotal) \cup {DefaultLimit}

BulkBodies ==
    {FailBody, NullBody, NumberBody, ObjectBody, ArrayBody(NonDicts(1))}
    \cup {ArrayBody(Slice(0, n)) : n \in BulkLengths}

\* what the remote may answer a page request at offset off with: the page
\* may be shorter or longer than the limit asked for
PageBodies(off) ==
    {FailBody, NullBody, NumberBody, ObjectBody, ArrayBody(NonDicts(1))}
    \cup {ArrayBody(Slice(off, n)) : n \in 0..(MaxTotal + 1)}

\* what the remote may answer the count query with
CountBodies ==
    {[kind |-> "fail", n |-> 0], [kind |-> "malformed", n |-> 0]}
    \cup {[kind |-> "count", n |-> n] : n \in (-1)..MaxTotal}

(* ------------------------- build_where_clause -------------------------- *)
(* A string is the sequence of its characters.                             *)

\* most district codes a caller of build_where_clause passes
MaxDistricts == 2

\* the district codes callers pass: one code is the beginning of another
DistrictCodes == {<<"6", "4", "5">>, <<"6", "4", "6">>, <<"6", "4">>}

\* the dates callers pass, in calendar order
DateOrder ==
    <<<<"2", "0", "2", "5", "-", "0", "7", "-", "2", "6">>,
      <<"2", "0", "2", "5", "-", "0", "8", "-", "2", "5">>>>

\* the non-empty lists of different district codes
DistrictLists ==
    {d \in SeqsUpTo(DistrictCodes, MaxDistricts) :
        d # <<>> /\ \A i, j \in 1..Len(d) : i # j => d[i] # d[j]}

NoFilter == [districts |-> <<>>, start_date |-> <<>>, end_date |-> <<>>]

RECURSIVE Join(_, _)
\* sep.join(strings)
Join(sep, strings) ==
    IF strings = <<>> THEN <<>>
    ELSE IF Len(strings) = 1 THEN strings[1]
    ELSE strings[1] \o sep \o Join(sep, Tail(strings))

\* "', '"
DistrictSeparator == <<"'", ",", " ", "'">>

\* "rpt_dist_no IN ('"
InPrefix ==
    <<"r", "p", "t", "_", "d", "i", "s", "t", "_", "n", "o", " ", "I", "N",
      " ", "(", "'">>

\* "') AND date_occ >= '"
FromPrefix ==
    <<"'", ")", " ", "A", "N", "D", " ", "d", "a", "t", "e", "_", "o", "c",
      "c", " ", ">", "=", " ", "'">>

\* "' AND date_occ <= '"
ToPrefix ==
    <<"'", " ", "A", "N", "D", " ", "d", "a", "t", "e", "_", "o", "c", "c",
      " ", "<", "=", " ", "'">>

\* "' AND date_occ < '", the text of the mutant below
ToPrefixExclusive ==
    <<"'", " ", "A", "N", "D", " ", "d", "a", "t", "e", "_", "o", "c", "c",
      " ", "<", " ", "'">>

\* mutant of BuildWhereClause: the end date is an exclusive bound
BuildWhereClauseExclusiveEnd(districts, start_date, end_date) ==
    InPrefix \o Join(DistrictSeparator, districts) \o FromPrefix \o start_date
    \o ToPrefixExclusive \o end_date \o <<"'">>

\* f"rpt_dist_no IN ('{district_list}') AND date_occ >= '{start_date}' AND
\* date_occ <= '{end_date}'"
BuildWhereClause(districts, start_date, end_date) ==
    InPrefix \o Join(DistrictSeparator, districts) \o FromPrefix \o start_date
    \o ToPrefix \o end_date \o <<"'">>

(* ------------------------------- files --------------------------------- *)

NoFile == [exists |-> FALSE, rows |-> <<>>]

\* a file left at the destination by an earlier run
OldFile == [exists |-> TRUE, rows |-> << <<"old">> >>]

FileOf(rows) == [exists |-> TRUE, rows |-> rows]

(* ------------------------------- state --------------------------------- *)

VARIABLES
    pc,              \* position of the program
    entry,           \* the operation the caller invoked
    data,            \* main's data / save_to_csv's data / the value returned
    limit_per_page,  \* query_with_pagination's parameter
    total_count,     \* query_with_pagination's local
    all_records,     \* query_with_pagination's local
    offset,          \* query_with_pagination's local
    page,            \* query_with_pagination's local
    stop,            \* which break left the while loop, "none" if none did
    file,            \* the file at the destination path
    ret,             \* what save_to_csv returned, "none" before it returns
    raised,          \* an exception propagated out of the invoked operation
    trace,           \* requests, pauses, file opens and reports so far
    filter,          \* build_where_clause's districts, start_date, end_date
    where_clause     \* what build_where_clause returned

vars == <<pc, entry, data, limit_per_page, total_count, all_records, offset,
          page, stop, file, ret, raised, trace, filter, where_clause>>

wherevars == <<filter, where_clause>>

pagvars == <<limit_per_page, total_count, all_records, offset, page, stop>>

\* something the program did: ev says what; a request carries its limit and
\* offset, the kind of body that answered it, the number got from it (the
\* count, or the number of elements, -1 when the request was given up as
\* failed) and, for a bulk or page request, the elements
Ev(ev, limit, off, kind, got, items) ==
    [ev |-> ev, limit |-> limit, offset |-> off, kind |-> kind, got |-> got,
     items |-> items]

Note(ev) == Ev(ev, 0, 0, "", 0, <<>>)

Init ==
    /\ pc = "idle"
    /\ entry = "none"
    /\ data = <<>>
    /\ limit_per_page = 0
    /\ total_count = 0
    /\ all_records = <<>>
    /\ offset = 0
    /\ page = 0
    /\ stop = "none"
    /\ file \in {NoFile, OldFile}
    /\ ret = "none"
    /\ raised = FALSE
    /\ trace = <<>>
    /\ filter = NoFilter
    /\ where_clause = <<>>

(* ---------------------------- entry points ----------------------------- *)

CallMain ==
    /\ pc = "idle"
    /\ pc' = "bulk"
    /\ entry' = "main"
    /\ UNCHANGED <<wherevars, data, pagvars, file, ret, raised, trace>>

CallQueryWithPagination ==
    /\ pc = "idle"
    /\ \E ps \in 1..MaxPageSize :
         limit_per_page' = ps
    /\ pc' = "count"
    /\ entry' = "query_with_pagination"
    /\ UNCHANGED <<wherevars, data, total_count, all_records, offset, page, stop, file,
                   ret, raised, trace>>

RECURSIVE ListOf(_)
\* the list of the elements of the one-element lists of s
ListOf(s) == IF s = <<>> THEN <<>> ELSE Concat(s[1], ListOf(Tail(s)))

\* the records a direct caller of save_to_csv may pass, as one-element
\* lists: the first records of the remote's list
SampleItems == {Slice(i, 1) : i \in 0..(MaxRecs + 1)}

CallSaveToCsv ==
    /\ pc = "idle"
    /\ \E s \in SeqsUpTo(SampleItems, MaxRecs) :
         data' = ListOf(s)
    /\ pc' = "save"
    /\ entry' = "save_to_csv"
    /\ UNCHANGED <<wherevars, pagvars, file, ret, raised, trace>>

\* build_where_clause called on its own
CallBuildWhereClause ==
    /\ pc = "idle"
    /\ \E d \in DistrictLists, i, j \in 1..Len(DateOrder) :
         /\ i <= j
         /\ filter' = [districts |-> d, start_date |-> DateOrder[i],
                        end_date |-> DateOrder[j]]
         /\ where_clause' = BuildWhereClause(d, DateOrder[i], DateOrder[j])
    /\ pc' = "done"
    /\ entry' = "build_where_clause"
    /\ UNCHANGED <<data, pagvars, file, ret, raised, trace>>

(* ------------------------ query_with_high_limit ------------------------ *)

\* the try block raises: the request, raise_for_status or json() raised, or
\* len(data) raised because the JSON value has no length
HighLimitRaises(body) == body.kind \in {"fail", "null", "number"}

HighLimitResult(body) == IF HighLimitRaises(body) THEN <<>> ELSE body.items

QueryWithHighLimit ==
    /\ pc = "bulk"
    /\ \E body \in BulkBodies :
         /\ data' = HighLimitResult(body)
         /\ trace' = Append(trace,
                Ev("bulk", DefaultLimit, 0, body.kind,
                   IF HighLimitRaises(body) THEN -1 ELSE ListLen(body.items),
                   body.items))
    /\ pc' = "select"
    /\ UNCHANGED <<wherevars, entry, pagvars, file, ret, raised>>

(* -------------------------------- main --------------------------------- *)

\* mutant of UseFallback: pagination runs whatever the bulk request returned
UseFallbackAlways(d) == TRUE

\* mutant of UseFallback: the truncation test is missing
UseFallbackOnlyWhenEmpty(d) == d = <<>>

\* if not data or len(data) == 50000
UseFallback(d) == d = <<>> \/ ListLen(d) = MainTruncationSize

MainSelect ==
    /\ pc = "select"
    /\ IF UseFallback(data)
         THEN /\ pc' = "count"
              /\ limit_per_page' = DefaultLimitPerPage
         ELSE /\ pc' = "save_check"
              /\ UNCHANGED limit_per_page
    /\ UNCHANGED <<wherevars, entry, data, total_count, all_records, offset, page, stop,
                   file, ret, raised, trace>>

(* ---------------------------- get_total_count -------------------------- *)

\* mutant of GetTotalCountResult: a failed count is taken for one record
GetTotalCountResultOneOnError(body) == IF body.kind = "count" THEN body.n ELSE 1

\* int(data[0]['count']), or 0 when anything in the try block raised
GetTotalCountResult(body) == IF body.kind = "count" THEN body.n ELSE 0

(* ------------------------- query_with_pagination ----------------------- *)

\* where the program goes on when query_with_pagination returns
AfterPagination == IF entry = "main" THEN "save_check" ELSE "done"

\* if total_count == 0: return []
ReturnsEarly(total) == total = 0

\* get_total_count, the early return, the initialisation of the locals
GetTotalCount ==
    /\ pc = "count"
    /\ \E body \in CountBodies :
         LET total == GetTotalCountResult(body) IN
         /\ total_count' = total
         /\ trace' = Append(trace, Ev("count", 0, 0, body.kind, total, <<>>))
         /\ IF ReturnsEarly(total)
              THEN /\ data' = <<>>
                   /\ pc' = AfterPagination
                   /\ UNCHANGED <<all_records, offset, page>>
              ELSE /\ all_records' = <<>>
                   /\ offset' = 0
                   /\ page' = 1
                   /\ pc' = "loop"
                   /\ UNCHANGED data
    /\ UNCHANGED <<wherevars, entry, limit_per_page, stop, file, ret, raised>>

\* mutant of LoopCondition: one page too many
LoopConditionInclusive(off, total) == off <= total

\* while offset < total_count
LoopCondition(off, total) == off < total

\* the try block of the loop body raises: the request, raise_for_status or
\* json() raised, or extend() raised because the JSON value is not iterable
PageRaises(body) == body.kind \in {"fail", "number"}

\* if not page_data
PageIsFalsy(body) == body.kind = "null" \/ body.items = <<>>

\* mutant of PageStop: a failed page request is skipped, the loop goes on
PageStopNotOnError(body) ==
    IF PageRaises(body) THEN "none"
    ELSE IF PageIsFalsy(body) THEN "empty"
    ELSE "none"

\* which break the loop body takes on this response, "none" if it takes none
PageStop(body) ==
    IF PageRaises(body) THEN "error"
    ELSE IF PageIsFalsy(body) THEN "empty"
    ELSE "none"

\* all_records.extend(page_data)
Extend(records, items) == Concat(records, items)

\* mutant of NextOffset: the offset advances by one record, not one page
NextOffsetByOne(off, limit) == off + 1

\* offset += limit_per_page
NextOffset(off, limit) == off + limit

\* mutant of PauseAfterPage: the next request follows at once
NoPauseAfterPage == <<>>

\* time.sleep(0.1), after a page was appended
PauseAfterPage == <<Note("sleep")>>

\* one iteration of the while loop: the page request and what follows it
FetchPage ==
    /\ pc = "loop"
    /\ stop = "none"
    /\ LoopCondition(offset, total_count)
    /\ \E body \in PageBodies(offset) :
         LET request == Ev("page", limit_per_page, offset, body.kind,
                           IF PageRaises(body) THEN -1 ELSE ListLen(body.items),
                           body.items)
         IN
         /\ stop' = PageStop(body)
         /\ IF PageStop(body) = "none"
              THEN /\ all_records' = Extend(all_records, body.items)
                   /\ offset' = NextOffset(offset, limit_per_page)
                   /\ page' = page + 1
                   /\ trace' = trace \o <<request>> \o PauseAfterPage
              ELSE /\ trace' = Append(trace, request)
                   /\ UNCHANGED <<all_records, offset, page>>
    /\ UNCHANGED <<wherevars, pc, entry, data, limit_per_page, total_count, file, ret,
                   raised>>

\* what query_with_pagination returns when the loop has ended
PaginationResult(records) == records

\* the loop has ended: return all_records
PaginationReturn ==
    /\ pc = "loop"
    /\ stop # "none" \/ ~LoopCondition(offset, total_count)
    /\ data' = PaginationResult(all_records)
    /\ pc' = AfterPagination
    /\ UNCHANGED <<wherevars, entry, pagvars, file, ret, raised, trace>>

(* ------------------------------ save_to_csv ---------------------------- *)

\* all_keys: the union of record.keys() over the records of d, a list of
\* records only
AllKeys(d) ==
    UNION {DOMAIN DataRecord(j) :
             j \in UNION {(d[r].o + 1)..(d[r].o + d[r].n) : r \in 1..Len(d)}}

Least(S) == CHOOSE k \in S : \A j \in S \ {k} : StrLess(k, j)

RECURSIVE Sorted(_)
\* sorted(list(all_keys))
Sorted(S) == IF S = {} THEN <<>> ELSE <<Least(S)>> \o Sorted(S \ {Least(S)})

\* mutant of Fieldnames: the columns are those of the first record
FieldnamesOfFirstRecord(d) == Sorted(DOMAIN ItemAt(d, 1).fields)

\* fieldnames
Fieldnames(d) == Sorted(AllKeys(d))

\* how the csv writer writes a value: None as an empty field
CsvField(v) == IF v = Null THEN "" ELSE v

\* DictWriter.writerow: restval '' for a fieldname the record lacks
CsvRow(rec, fieldnames) ==
    [j \in 1..Len(fieldnames) |->
        IF fieldnames[j] \in DOMAIN rec THEN CsvField(rec[fieldnames[j]]) ELSE ""]

\* writeheader, then one writerow per record
CsvLines(d) ==
    LET fieldnames == Fieldnames(d) IN
    <<fieldnames>>
    \o [i \in 1..ListLen(d) |-> CsvRow(ItemAt(d, i).fields, fieldnames)]

\* record.keys() raises AttributeError, outside the try block
SaveRaises(d) == \E r \in 1..Len(d) : d[r].o = -1

\* mutant of NothingToSave: the guard is missing
NothingToSaveNever(d) == FALSE

\* if not data: return False
NothingToSave(d) == d = <<>>

\* where the program goes on when save_to_csv returns
AfterSave == IF entry = "main" THEN "report" ELSE "done"

\* the whole of save_to_csv; the filesystem decides whether open() and the
\* writes succeed, and how many lines reached the file before a write error
SaveToCsv ==
    /\ pc = "save"
    /\ IF NothingToSave(data)
         THEN /\ ret' = "false"
              /\ pc' = AfterSave
              /\ UNCHANGED <<file, raised, trace>>
         ELSE IF SaveRaises(data)
         THEN /\ raised' = TRUE
              /\ pc' = "crashed"
              /\ UNCHANGED <<file, ret, trace>>
         ELSE LET lines == CsvLines(data) IN
              \/ /\ file' = FileOf(lines)
                 /\ ret' = "true"
                 /\ trace' = Append(trace, Ev("open", 0, 0, "ok", 0, <<>>))
                 /\ pc' = AfterSave
                 /\ UNCHANGED raised
              \/ /\ ret' = "false"
                 /\ trace' = Append(trace, Ev("open", 0, 0, "open_error", 0, <<>>))
                 /\ pc' = AfterSave
                 /\ UNCHANGED <<file, raised>>
              \/ /\ \E k \in 0..Min(MaxPartial, Len(lines)) :
                      file' = FileOf(SubSeq(lines, 1, k))
                 /\ ret' = "false"
                 /\ trace' = Append(trace, Ev("open", 0, 0, "write_error", 0, <<>>))
                 /\ pc' = AfterSave
                 /\ UNCHANGED raised
    /\ UNCHANGED <<wherevars, entry, data, pagvars>>

(* ----------------------------- main, the end --------------------------- *)

\* mutant of HasData: save_to_csv is called whatever was retrieved
HasDataAlways(d) == TRUE

\* if data:
HasData(d) == d # <<>>

\* if data: querier.save_to_csv(data, OUTPUT_FILE) ...
\* else: print("No data retrieved")
MainSaveCheck ==
    /\ pc = "save_check"
    /\ IF HasData(data)
         THEN /\ pc' = "save"
              /\ trace' = Append(trace, Note("export"))
         ELSE /\ pc' = "done"
              /\ trace' = Append(trace, Note("print_no_data"))
    /\ UNCHANGED <<wherevars, entry, data, pagvars, file, ret, raised>>

\* print("Data successfully exported to ...")
MainReport ==
    /\ pc = "report"
    /\ trace' = Append(trace, Note("print_exported"))
    /\ pc' = "done"
    /\ UNCHANGED <<wherevars, entry, data, pagvars, file, ret, raised>>

(* ---------------------------- specification ---------------------------- *)

Next ==
    \/ CallMain
    \/ CallQueryWithPagination
    \/ CallSaveToCsv
    \/ CallBuildWhereClause
    \/ QueryWithHighLimit
    \/ MainSelect
    \/ GetTotalCount
    \/ FetchPage
    \/ PaginationReturn
    \/ SaveToCsv
    \/ MainSaveCheck
    \/ MainReport

Spec == Init /\ [][Next]_vars

\* the program is sequential and nothing suspends it for ever: a call is
\* made and every step that can be taken is taken
FairSpec == Spec /\ WF_vars(Next)

(* ------------------------- reading the history ------------------------ *)

Indices(ev) == {i \in 1..Len(trace) : trace[i].ev = ev}

\* a page request whose records were appended: it did not fail and its page
\* was not empty
Appended(e) == e.ev = "page" /\ e.got > 0

RECURSIVE AppendedItems(_)
\* the records of the appended pages of history t, in request order
AppendedItems(t) ==
    IF t = <<>> THEN <<>>
    ELSE AppendedItems(SubSeq(t, 1, Len(t) - 1))
         \o (IF Appended(t[Len(t)]) THEN Elements(t[Len(t)].items) ELSE <<>>)

\* query_with_pagination was called and has returned
PaginationReturned == Indices("count") # {} /\ pc \notin {"count", "loop"}

\* what query_with_high_limit returned in this run of main
BulkReturned == IF trace[1].got = -1 THEN <<>> ELSE trace[1].items

(* -------------------------------- claims ------------------------------- *)

\* C1: once main has chosen its data, the data is the paginated result (the
\* records of the appended pages, empty when there were none) if the bulk
\* result was empty or held exactly 50000 elements, and the bulk result, with
\* no count or page request made, in every other case.
C1_MainSelectsData ==
    (entry = "main" /\ pc \in {"save_check", "save", "report", "done", "crashed"})
    => /\ trace[1].ev = "bulk"
       /\ IF BulkReturned = <<>> \/ ListLen(BulkReturned) = DefaultLimit
            THEN /\ Indices("count") # {}
                 /\ Elements(data) = AppendedItems(trace)
            ELSE /\ Indices("count") = {} /\ Indices("page") = {}
                 /\ data = BulkReturned

\* C1 witness: the bulk request returned exactly 50000 elements, and main
\* goes on with a paginated result of two records.
C1_Witness ==
    /\ entry = "main" /\ pc = "save_check"
    /\ trace[1].got = DefaultLimit
    /\ ListLen(data) = 2
    /\ Elements(data) = AppendedItems(trace)

\* the page requests made so far, in order
Pages == SelectSeq(trace, LAMBDA e : e.ev = "page")

\* the number of pages appended before the i-th event
AppendedBefore(i) ==
    Cardinality({j \in Indices("page") : j < i /\ Appended(trace[j])})

\* no page so far held more records than the limit asked for
PagesWithinLimit == \A i \in Indices("page") : trace[i].got <= trace[i].limit

\* C2 as stated, for a remote that sends no page longer than page_size:
\* pagination has ended only if the accumulated records are at least total,
\* or the last page was empty or failed; and a page is requested only while
\* fewer than total records are accumulated.
C2_StopsOnAccumulatedCount ==
    PagesWithinLimit
    => /\ PaginationReturned
           => \/ ListLen(all_records) >= total_count
              \/ Pages # <<>> /\ Pages[Len(Pages)].got <= 0
       /\ \A i \in Indices("page") :
             Len(AppendedItems(SubSeq(trace, 1, i - 1))) < total_count

\* C2 amended: pagination has ended only if the next offset (page_size times
\* the number of pages appended) is at least total, or the last page was
\* empty or failed; and a page is requested only while the next offset is
\* below total and no earlier page was empty or failed.
C2_StopsOnOffset ==
    /\ PaginationReturned
        => \/ AppendedBefore(Len(trace) + 1) * limit_per_page >= total_count
           \/ Pages # <<>> /\ Pages[Len(Pages)].got <= 0
    /\ \A i \in Indices("page") :
          /\ AppendedBefore(i) * limit_per_page < total_count
          /\ \A j \in Indices("page") : j < i => Appended(trace[j])

\* C2 witness: two short non-empty pages were appended and pagination ended
\* with fewer records than total, no page having been empty or failed.
C2_Witness ==
    /\ PaginationReturned
    /\ Len(Pages) = 2
    /\ \A i \in 1..2 : Pages[i].got = 1 /\ Pages[i].limit = 2
    /\ ListLen(all_records) = 2
    /\ total_count = 3

\* every page request so far was answered with exactly the records of the
\* remote's list from its offset on, at most limit of them, up to total
HonestPages ==
    \A i \in Indices("page") :
        /\ trace[i].kind = "array"
        /\ trace[i].items =
             Slice(trace[i].offset,
                   Min(trace[i].limit, total_count - trace[i].offset))

\* C3: with total > 0 and every page answered honestly, the paginated fetch
\* returns the remote's list: total records, the i-th being the remote's i-th.
C3_PaginatedReturnsRemoteList ==
    (PaginationReturned /\ total_count > 0 /\ HonestPages)
    => /\ ListLen(data) = total_count
       /\ \A i \in 1..total_count : ItemAt(data, i) = Item(DataRecord(i))

\* C3 witness: three records were fetched in a full and a short page.
C3_Witness ==
    /\ PaginationReturned /\ HonestPages
    /\ total_count = 3 /\ limit_per_page = 2
    /\ Len(Pages) = 2
    /\ data = Slice(0, 3)

\* C4: a failed page request (all earlier ones having been appended) is the
\* last request of the run; the fetch returns the records of the pages
\* before it, in request order, and raises nothing.
C4_FailedPageEndsPagination ==
    \A i \in Indices("page") :
        (/\ trace[i].got = -1
         /\ \A j \in Indices("page") : j < i => Appended(trace[j]))
        => /\ \A j \in (i + 1)..Len(trace) :
                 trace[j].ev \notin {"page", "count", "bulk"}
           /\ PaginationReturned
                => Elements(data) = AppendedItems(SubSeq(trace, 1, i - 1))
           /\ entry = "query_with_pagination" => ~raised
           /\ pc # "loop" => PaginationReturned

\* C4 witness: the third of four expected page requests failed and the fetch
\* returned the two records of the first two pages.
C4_Witness ==
    /\ entry = "query_with_pagination" /\ pc = "done"
    /\ Len(Pages) = 3
    /\ Pages[3].got = -1
    /\ data = Slice(0, 2)
    /\ limit_per_page = 1
    /\ total_count = 4

\* C5: a count request that failed or was answered malformed counts as 0,
\* and after a count of 0 no page is requested and the fetch returns the
\* empty list.
C5_ZeroCountNoPages ==
    \A i \in Indices("count") :
        /\ trace[i].kind # "count" => trace[i].got = 0
        /\ trace[i].got = 0
             => /\ Indices("page") = {}
                /\ PaginationReturned => data = <<>>
                /\ pc # "loop"

\* C5 witness: the count request failed and the fetch returned empty with
\* the count request as its only request.
C5_Witness ==
    /\ entry = "query_with_pagination" /\ pc = "done"
    /\ Len(trace) = 1
    /\ trace[1].ev = "count" /\ trace[1].kind = "fail"
    /\ data = <<>>

\* the length bound of C6 holds in this state
LengthWithinBound ==
    PagesWithinLimit
    => /\ ListLen(all_records) <= total_count + limit_per_page
       /\ PaginationReturned => ListLen(data) <= total_count + limit_per_page

\* C6: with no page longer than page_size, the accumulated list is never
\* longer than total + page_size, nor is the returned list; and no step
\* makes the accumulated list shorter.
C6_LengthBounded ==
    [][LengthWithinBound' /\ ListLen(all_records') >= ListLen(all_records)]_vars

\* C6 witness: with total 1 and page_size 3 a page of three records was
\* appended: two more than total, fewer than total + page_size.
C6_Witness ==
    /\ PaginationReturned /\ PagesWithinLimit
    /\ total_count = 1 /\ limit_per_page = 3
    /\ ListLen(data) = 3

\* C7: no exception propagates out of the invoked operation.
C7_NoExceptionPropagates == raised = FALSE

\* C8 as stated: every bulk request and every page request is preceded by a
\* count request.
C8_CountPrecedesEveryFetch ==
    \A i \in Indices("bulk") \cup Indices("page") :
        \E j \in Indices("count") : j < i

\* C8 amended: the bulk request, when made, is the first request of the run
\* (no count precedes it); the count request is made at most once, in main
\* only when the bulk result was empty or held exactly 50000 elements; and
\* every page request is preceded by the count request.
C8_CountPrecedesPages ==
    /\ \A i \in Indices("bulk") : i = 1
    /\ Cardinality(Indices("count")) <= 1
    /\ (entry = "main" /\ Indices("count") # {})
        => (BulkReturned = <<>> \/ ListLen(BulkReturned) = DefaultLimit)
    /\ \A i \in Indices("page") : \E j \in Indices("count") : j < i

\* C8 witness: main made the bulk request, then the count request, then a
\* page request.
C8_Witness ==
    /\ entry = "main"
    /\ Len(trace) >= 3
    /\ trace[1].ev = "bulk" /\ trace[2].ev = "count" /\ trace[3].ev = "page"

\* C9: save_to_csv called with an empty list returns false, opens no file,
\* leaves the file at the destination (or its absence) as it was, and
\* raises nothing.
C9_EmptyExportWritesNothing ==
    [][(pc = "save" /\ data = <<>>)
       => (ret' = "false" /\ file' = file /\ trace' = trace /\ ~raised')]_vars

\* C9 witness: save_to_csv was called with an empty list while a file
\* existed at the destination; it returned false and the file is as it was.
C9_Witness ==
    /\ entry = "save_to_csv" /\ pc = "done"
    /\ data = <<>>
    /\ ret = "false"
    /\ file = OldFile

\* C10: after a successful export the file holds a header that is the set of
\* all keys of all records in strictly increasing lexicographic order, then
\* one row per record in the records' order, each row holding per column the
\* record's value (null written as an empty field) or an empty field where
\* the record lacks the column.
C10_CsvContents ==
    ret = "true"
    => LET recs == Elements(data)
           rows == file.rows
       IN  /\ file.exists
           /\ Len(rows) = Len(recs) + 1
           /\ {rows[1][j] : j \in 1..Len(rows[1])}
                = UNION {DOMAIN recs[i].fields : i \in 1..Len(recs)}
           /\ \A j, k \in 1..Len(rows[1]) :
                 j < k => StrLess(rows[1][j], rows[1][k])
           /\ \A i \in 1..Len(recs) :
                 /\ Len(rows[i + 1]) = Len(rows[1])
                 /\ \A j \in 1..Len(rows[1]) :
                       rows[i + 1][j] =
                         IF rows[1][j] \notin DOMAIN recs[i].fields THEN ""
                         ELSE IF recs[i].fields[rows[1][j]] = Null THEN ""
                         ELSE recs[i].fields[rows[1][j]]

\* C10 witness: the records {a: 1, b: 2} and {a: 2} were exported as the
\* header a,b and the rows 1,2 and 2,(empty).
C10_Witness ==
    /\ ret = "true"
    /\ data = Slice(0, 2)
    /\ file.rows = << <<"a", "b">>, <<"1", "2">>, <<"2", "">> >>

\* C11: a page request that is not the first of the run comes directly after
\* a pause: between any two consecutive page requests the program slept.
C11_PauseBetweenPages ==
    \A i \in Indices("page") :
        (\E j \in Indices("page") : j < i) => trace[i - 1].ev = "sleep"

\* C11 witness: two page requests were made, with a pause between them.
C11_Witness ==
    /\ Len(Pages) = 2
    /\ \E i \in Indices("page") :
         /\ i + 2 \in Indices("page")
         /\ trace[i + 1].ev = "sleep"

\* the number of places of string w at which string pat occurs
Occurrences(pat, w) ==
    Cardinality({i \in 1..(Len(w) - Len(pat) + 1) :
                    SubSeq(w, i, i + Len(pat) - 1) = pat})

Quoted(str) == <<"'">> \o str \o <<"'">>

\* "date_occ >= "
AtLeast ==
    <<"d", "a", "t", "e", "_", "o", "c", "c", " ", ">", "=", " ">>

\* "date_occ <= "
AtMost ==
    <<"d", "a", "t", "e", "_", "o", "c", "c", " ", "<", "=", " ">>

\* C12: the expression build_where_clause returns for a non-empty list of
\* different district codes holds every code exactly once as a quoted value,
\* and holds "date_occ >= 'start'" and "date_occ <= 'end'", each once.
C12_WhereClauseContents ==
    entry = "build_where_clause"
    => /\ \A k \in 1..Len(filter.districts) :
             Occurrences(Quoted(filter.districts[k]), where_clause) = 1
       /\ Occurrences(AtLeast \o Quoted(filter.start_date), where_clause) = 1
       /\ Occurrences(AtMost \o Quoted(filter.end_date), where_clause) = 1

\* C12 witness: the expression was built for the codes 64 and 645 (one the
\* beginning of the other) and two different dates.
C12_Witness ==
    /\ entry = "build_where_clause" /\ pc = "done"
    /\ filter.districts = << <<"6", "4">>, <<"6", "4", "5">> >>
    /\ filter.start_date # filter.end_date
    /\ Len(where_clause) > 0

\* the body that answered request e is not a JSON array of JSON objects (or
\* there was no body at all)
NotAnArrayOfObjects(e) ==
    e.kind # "array" \/ \E r \in 1..Len(e.items) : e.items[r].o = -1

\* C13: a count request that failed in any way gives 0 and a bulk request
\* that failed in any way (no response, an error status, a body that is not
\* an array of objects) gives the empty list; neither raises, and neither
\* request is made a second time.
C13_FailuresGiveEmptyResults ==
    /\ \A i \in Indices("count") : trace[i].kind # "count" => trace[i].got = 0
    /\ (entry = "main" /\ pc = "select" /\ NotAnArrayOfObjects(trace[1]))
        => data = <<>>
    /\ Cardinality(Indices("count")) <= 1
    /\ Cardinality(Indices("bulk")) <= 1
    /\ pc \in {"select", "loop"} => ~raised

\* the least integer not below a / b, for b > 0
CeilDiv(a, b) == (a + b - 1) \div b

\* what C14 says of the requests made so far
PageRequestsBounded ==
    /\ Cardinality(Indices("count")) <= 1
    /\ (Pages # <<>> \/ PaginationReturned) => Cardinality(Indices("count")) = 1
    /\ \A k \in 1..Len(Pages) :
          /\ Pages[k].limit = limit_per_page
          /\ Pages[k].offset = (k - 1) * limit_per_page
          /\ Pages[k].offset < total_count
          /\ \A j \in 1..(k - 1) : Pages[j].offset < Pages[k].offset
    /\ Pages # <<>> => Len(Pages) <= CeilDiv(total_count, limit_per_page)

\* the invoked operation has ended
Finished == pc \in {"done", "crashed"}

\* C14: the paginated fetch makes one count request and at most
\* ceil(total / page_size) page requests, the k-th with limit page_size and
\* offset (k - 1) * page_size, which is below total and above the offsets
\* before it; and every run ends.
C14_PaginationTerminates == []PageRequestsBounded /\ <>Finished

\* C14 witness: with total 4 and page_size 3 the fetch has returned after
\* two page requests, at the offsets 0 and 3.
C14_Witness ==
    /\ PaginationReturned
    /\ total_count = 4 /\ limit_per_page = 3
    /\ Len(Pages) = 2
    /\ Pages[1].offset = 0 /\ Pages[2].offset = 3

\* what C15 says of the order of main's steps so far: the data is handed to
\* save_to_csv at most once and only if it is not empty, nothing is
\* requested after that, and a run that has ended handed its data over
\* exactly if there was any
ExportOrder ==
    entry = "main"
    => /\ Cardinality(Indices("export")) <= 1
       /\ \A i \in Indices("export") :
             /\ data # <<>>
             /\ \A j \in (i + 1)..Len(trace) :
                   trace[j].ev \notin {"bulk", "count", "page", "sleep"}
       /\ Finished => (Indices("export") # {} <=> data # <<>>)

\* main has its final data: fetching has ended
FetchingEnded == entry = "main" /\ pc \in {"save_check", "save", "report"}

\* C15 as stated: a run of main that has ended handed its data to
\* save_to_csv exactly once, with no request after that.
C15_ExportedExactlyOnce ==
    (entry = "main" /\ Finished)
    => /\ Cardinality(Indices("export")) = 1
       /\ \A i \in Indices("export") : \A j \in (i + 1)..Len(trace) :
             trace[j].ev \notin {"bulk", "count", "page", "sleep"}

\* C15 amended: main hands its final data to save_to_csv at most once,
\* exactly once if the data is not empty and never if it is empty, only after
\* all requests; no step after the end of fetching changes the data.
C15_ExportAfterFetching ==
    [][ExportOrder' /\ (FetchingEnded => data' = data)]_vars

\* C15 witness: main fell back to the paginated fetch, handed two records to
\* save_to_csv as its last-but-one act and has ended.
C15_Witness ==
    /\ entry = "main" /\ pc = "done"
    /\ Indices("count") # {} /\ Indices("page") # {}
    /\ Cardinality(Indices("export")) = 1
    /\ ListLen(data) = 2
    /\ ret = "true"

\* C16: the success report is printed only after an export that returned
\* true.
C16_ReportOnlyAfterSuccess ==
    Indices("print_exported") # {} => ret = "true"

====
